---- MODULE Spec2Model ----
(***************************************************************************)
(* A model of backend/server.py: the order documents and their start and   *)
(* complete transitions, the read handlers, and the Socket.IO hub that     *)
(* relays location updates and stores them in location_history.            *)
(*                                                                         *)
(* A MongoDB document is a function from field names to values; a field    *)
(* that was never written is absent from the function's domain, and        *)
(* dict.get reads it as None.  Time is the server clock in milliseconds    *)
(* (the resolution MongoDB keeps of a datetime).  A handler is modelled in  *)
(* the steps its awaits cut it into: for an HTTP handler the step that     *)
(* evaluates the arguments of the database call, and the step in which     *)
(* the database executes the call and the handler builds the response;     *)
(* for startup_event each database call, the continuation that receives   *)
(* its answer, and each reading of the clock while the seed documents are  *)
(* built; for location_update the emit, its return or its raise, the issue *)
(* of the insert and its execution.                                        *)
(***************************************************************************)
EXTENDS Integers, Sequences, FiniteSets, Bags, TLC

\* ---------------------------------------------------------------- bounds
\* The server clock runs from 0 to MaxClock.
MaxClock == 2
\* How many sessions connect over a run.
MaxSessions == 2
\* How many location_update events the server receives over a run.
MaxUpdates == 2
\* How many of the seeded orders the modelled clients address.
MaxTargets == 2
\* Where all handlers run together the clock runs from 0 to MaxFrameClock
\* and the server receives MaxFrameUpdates location_update events.
MaxFrameClock == 1
MaxFrameUpdates == 1

\* ------------------------------------------------------------- constants
\* The number of orders startup_event inserts.
NumSeedOrders == 5
\* The page size of get_assigned_orders: to_list(100).
PageSize == 100
\* Python's None, read for an absent optional field (timestamps are >= 0).
None == -1

VARIABLES
    now,              \* datetime.utcnow(), in milliseconds
    nextOid,          \* the next ObjectId the store generates
    delivery_agents,  \* db.delivery_agents: _id -> document
    orders,           \* db.orders: _id -> document
    up,               \* whether a server process has finished startup_event
    boot,             \* per server process: its position in startup_event
    http,             \* per HTTP client: the request in flight or the last response
    nextSid,          \* the next session id the Socket.IO server assigns
    connected,        \* the sessions connected to the Socket.IO server
    inbox,            \* per session: the events the server has sent it
    emitting,         \* the bag of payloads whose location_update awaits sio.emit
    inserts,          \* the bag of location_history inserts issued and not yet executed
    location_history, \* db.location_history, in insertion order
    logged,           \* the number of "Error storing location" lines logged
    unhandled,        \* the number of location_update handlers ended by an exception
    updates           \* history, read by no handler: per location_update received,
                      \* its payload and the sessions connected at that moment

dbVars == <<nextOid, delivery_agents, orders>>
hubVars == <<nextSid, connected, inbox, emitting, inserts, location_history, logged, unhandled,
             updates>>
vars == <<now, up, boot, dbVars, http, hubVars>>

\* ------------------------------------------------------------ ObjectId
\* The 24-hex-digit string forms of the ObjectIds the store generates, in
\* generation order; the last one is well-formed but never generated.
OidStrings ==
    << "650000000000000000000001", "650000000000000000000002",
       "650000000000000000000003", "650000000000000000000004",
       "650000000000000000000005", "650000000000000000000006",
       "650000000000000000000007" >>

\* A path parameter that is not 24 hex digits.
MalformedId == "test_order"

\* The result of bson.ObjectId(s) raising InvalidId.
InvalidId == 0

\* str(oid)
StrOfOid(oid) == OidStrings[oid]

\* bson.ObjectId(s): the id the string denotes, InvalidId when it is malformed.
ObjectId(s) ==
    IF \E i \in DOMAIN OidStrings : OidStrings[i] = s
    THEN CHOOSE i \in DOMAIN OidStrings : OidStrings[i] = s
    ELSE InvalidId

\* ------------------------------------------------------------ documents
\* dict.get(key): None for an absent key.
Get(doc, key) == IF key \in DOMAIN doc THEN doc[key] ELSE None

\* The document after {"$set": upd}.
SetFields(doc, upd) ==
    [k \in (DOMAIN doc) \cup (DOMAIN upd) |->
        IF k \in DOMAIN upd THEN upd[k] ELSE doc[k]]

\* An update with an empty filter: the $set reaches every document.
UpdateMany(coll, oid, upd) ==
    IF oid \in DOMAIN coll
    THEN [o \in DOMAIN coll |-> SetFields(coll[o], upd)]
    ELSE coll

\* update_one({"_id": oid}, {"$set": upd}): the collection afterwards.
UpdateOne(coll, oid, upd) ==
    IF oid \in DOMAIN coll
    THEN [coll EXCEPT ![oid] = SetFields(@, upd)]
    ELSE coll

\* A count that reports no modification whatever the update did.
ModifiedCountZero(coll, oid, upd) == 0

\* UpdateResult.modified_count: 1 when a document matched and the $set
\* changed it, 0 when none matched or the matched one already held the values.
ModifiedCount(coll, oid, upd) ==
    IF oid \in DOMAIN coll /\ SetFields(coll[oid], upd) # coll[oid] THEN 1 ELSE 0

\* find_one({"_id": oid}): the documents found (none or one).
FindOne(coll, oid) == IF oid \in DOMAIN coll THEN <<coll[oid]>> ELSE <<>>

\* ------------------------------------------------------------ seed data
\* hash_password: the bcrypt hash of a password (the salt is left out).
hash_password(password) == <<"bcrypt", password>>

\* verify_password
verify_password(plain_password, hashed_password) ==
    hashed_password = hash_password(plain_password)

\* The test agent startup_event inserts.
TestAgent(t) ==
    [ username |-> "agent1", password |-> hash_password("password123"),
      name |-> "Rajesh Kumar", phone |-> "+91 9876543210",
      status |-> "active", created_at |-> t ]

Loc(lat, lng, address) == [lat |-> lat, lng |-> lng, address |-> address]

\* The varying fields of the five test orders; coordinates in 1/10000 degree.
TestOrderData ==
    << [ order_number |-> "HYD001",
         pickup_location |-> Loc(174239, 784738, "Banjara Hills, Road No 12, Hyderabad, Telangana 500034"),
         delivery_location |-> Loc(174065, 784772, "Jubilee Hills, Plot 45, Hyderabad, Telangana 500033"),
         customer_info |-> [name |-> "Priya Sharma", phone |-> "+91 9988776655"] ],
       [ order_number |-> "HYD002",
         pickup_location |-> Loc(173616, 784747, "Somajiguda, Raj Bhavan Road, Hyderabad, Telangana 500082"),
         delivery_location |-> Loc(174126, 784479, "Madhapur, HITEC City, Hyderabad, Telangana 500081"),
         customer_info |-> [name |-> "Amit Patel", phone |-> "+91 9123456789"] ],
       [ order_number |-> "HYD003",
         pickup_location |-> Loc(174435, 783772, "Kondapur, Botanical Garden Road, Hyderabad, Telangana 500084"),
         delivery_location |-> Loc(174326, 784071, "Gachibowli, DLF Cyber City, Hyderabad, Telangana 500032"),
         customer_info |-> [name |-> "Sneha Reddy", phone |-> "+91 9876512345"] ],
       [ order_number |-> "HYD004",
         pickup_location |-> Loc(173753, 785268, "Uppal, Main Road, Hyderabad, Telangana 500039"),
         delivery_location |-> Loc(173894, 784896, "Begumpet, Paradise Circle, Hyderabad, Telangana 500016"),
         customer_info |-> [name |-> "Karthik Rao", phone |-> "+91 9765432108"] ],
       [ order_number |-> "HYD005",
         pickup_location |-> Loc(174399, 784983, "Kukatpally, KPHB Colony, Hyderabad, Telangana 500072"),
         delivery_location |-> Loc(174485, 783908, "Miyapur, BHEL Township, Hyderabad, Telangana 500049"),
         customer_info |-> [name |-> "Lakshmi Devi", phone |-> "+91 9234567890"] ] >>

\* The i-th test order as inserted: pending, assigned to the test agent, with
\* no started_at and no completed_at field.
TestOrder(i, agent_id, t) ==
    [ order_number |-> TestOrderData[i].order_number,
      pickup_location |-> TestOrderData[i].pickup_location,
      delivery_location |-> TestOrderData[i].delivery_location,
      assigned_agent_id |-> agent_id,
      status |-> "pending",
      customer_info |-> TestOrderData[i].customer_info,
      created_at |-> t ]

\* insert_many(docs): the collection with the documents added under fresh ids.
InsertMany(coll, first, docs) ==
    [oid \in (DOMAIN coll) \cup (first .. (first + Len(docs) - 1)) |->
        IF oid \in DOMAIN coll THEN coll[oid] ELSE docs[oid - first + 1]]

\* A server process and its run of startup_event: where the run stands, the
\* documents it has built, the id of the agent it inserted, and what its
\* find_one answered.
Boot(pc, docs, agent_id, found) ==
    [pc |-> pc, docs |-> docs, agent_id |-> agent_id, found |-> found]

\* A server process that is not in startup_event: it has not run it yet,
\* or has finished a run whose find_one answered found.
Booted(found) == Boot("done", <<>>, "", found)
NotBooted == Boot("idle", <<>>, "", FALSE)

\* A find_one that never finds agent1.
FindAgent1Never(coll) == FALSE

\* find_one({"username": "agent1"}): whether an agent is found.
FindAgent1(coll) == \E a \in DOMAIN coll : coll[a].username = "agent1"

\* startup_event is called and the store executes its find_one; the answer
\* is on its way to the handler.
startup_event_find_one(p) ==
    /\ boot[p].pc \in {"idle", "done"}
    /\ boot' = [boot EXCEPT ![p] =
                   Boot("find_one_reply", <<>>, "", FindAgent1(delivery_agents))]
    /\ UNCHANGED <<now, up, dbVars, http, hubVars>>

\* The handler receives the answer of find_one: with an agent it returns,
\* without one it builds test_agent with created_at = utcnow() and issues
\* insert_one.
startup_event_test_agent(p) ==
    /\ boot[p].pc = "find_one_reply"
    /\ IF boot[p].found
       THEN /\ boot' = [boot EXCEPT ![p] = Booted(TRUE)]
            /\ up' = TRUE
       ELSE /\ boot' = [boot EXCEPT ![p] = Boot("insert_one", <<TestAgent(now)>>, "", FALSE)]
            /\ up' = up
    /\ UNCHANGED <<now, dbVars, http, hubVars>>

\* The store executes insert_one; the inserted id is on its way to the
\* handler.
startup_event_insert_one(p) ==
    /\ boot[p].pc = "insert_one"
    /\ delivery_agents' = InsertMany(delivery_agents, nextOid, boot[p].docs)
    /\ nextOid' = nextOid + 1
    /\ boot' = [boot EXCEPT ![p] = Boot("test_orders", <<>>, StrOfOid(nextOid), FALSE)]
    /\ UNCHANGED <<now, up, orders, http, hubVars>>

\* The handler builds the next entry of test_orders, with created_at =
\* utcnow() read for that entry; with the last entry built it issues
\* insert_many.
startup_event_test_orders(p) ==
    /\ boot[p].pc = "test_orders"
    /\ LET docs == Append(boot[p].docs,
                          TestOrder(Len(boot[p].docs) + 1, boot[p].agent_id, now))
       IN boot' = [boot EXCEPT ![p] =
                      Boot(IF Len(docs) = NumSeedOrders THEN "insert_many" ELSE "test_orders",
                           docs, boot[p].agent_id, FALSE)]
    /\ UNCHANGED <<now, up, dbVars, http, hubVars>>

\* The store executes insert_many; the answer is on its way to the handler.
startup_event_insert_many(p) ==
    /\ boot[p].pc = "insert_many"
    /\ orders' = InsertMany(orders, nextOid, boot[p].docs)
    /\ nextOid' = nextOid + Len(boot[p].docs)
    /\ boot' = [boot EXCEPT ![p] = Boot("insert_many_reply", <<>>, boot[p].agent_id, FALSE)]
    /\ UNCHANGED <<now, up, delivery_agents, http, hubVars>>

\* The handler receives the answer of insert_many and returns.
startup_event_return(p) ==
    /\ boot[p].pc = "insert_many_reply"
    /\ boot' = [boot EXCEPT ![p] = Booted(FALSE)]
    /\ up' = TRUE
    /\ UNCHANGED <<now, dbVars, http, hubVars>>

\* startup_event, run by server process p: one of its steps.
startup_event(p) ==
    \/ startup_event_find_one(p)
    \/ startup_event_test_agent(p)
    \/ startup_event_insert_one(p)
    \/ startup_event_test_orders(p)
    \/ startup_event_insert_many(p)
    \/ startup_event_return(p)

\* The server clock advances by a millisecond.
Tick ==
    /\ now < MaxClock
    /\ now' = now + 1
    /\ UNCHANGED <<dbVars, up, boot, http, hubVars>>

\* ------------------------------------------------------------ HTTP
Clients == {"c1", "c2"}

\* The order ids the clients send: the first MaxTargets seeded orders, a
\* well-formed id no document has, and a malformed one.
UnknownId == StrOfOid(Len(OidStrings))
PathIds == {StrOfOid(1 + i) : i \in 1..MaxTargets} \cup {UnknownId, MalformedId}

\* The status the order has that a path id names ("absent" when none has):
\* recorded with a request when it arrives, read by no handler.
StatusSeen(order_id) ==
    IF ObjectId(order_id) \in DOMAIN orders
    THEN orders[ObjectId(order_id)].status
    ELSE "absent"

\* The order the two overlapping clients both address.
RaceIds == {StrOfOid(2)}

Idle ==
    [ pc |-> "idle", op |-> "", path |-> "", oid |-> InvalidId, ts |-> None,
      pre |-> "", code |-> 0, detail |-> "", body |-> <<>> ]

\* A request whose database call is issued and not yet executed.
Pending(op, path, oid, ts, pre) ==
    [ pc |-> "pending", op |-> op, path |-> path, oid |-> oid, ts |-> ts,
      pre |-> pre, code |-> 0, detail |-> "", body |-> <<>> ]

\* A request answered with a status code, an error detail and a JSON body.
Done(op, path, pre, code, detail, body) ==
    [ pc |-> "done", op |-> op, path |-> path, oid |-> InvalidId, ts |-> None,
      pre |-> pre, code |-> code, detail |-> detail, body |-> body ]

\* str(e) of the InvalidId that bson.ObjectId(MalformedId) raises.
InvalidIdDetail ==
    "'test_order' is not a valid ObjectId, it must be a 12-byte input or a 24-character hex string"

\* str(e) of HTTPException(status_code=404, detail="Order not found"), as
\* Starlette formats it: "<status_code>: <detail>".
NotFoundDetail == "404: Order not found"

\* except Exception as e: raise HTTPException(status_code=500, detail=str(e)).
\* The HTTPException(404) raised inside the try block is caught here too.
ExceptStatus(raised) == 500

\* start_order up to its await: ObjectId(order_id) and datetime.utcnow() are
\* evaluated, and update_one is issued.
StartOrderCall(c, order_id) ==
    /\ up
    /\ http[c].pc # "pending"
    /\ http' = [http EXCEPT ![c] =
            IF ObjectId(order_id) = InvalidId
            THEN Done("start", order_id, StatusSeen(order_id),
                      ExceptStatus("InvalidId"), InvalidIdDetail, <<>>)
            ELSE Pending("start", order_id, ObjectId(order_id), now,
                         StatusSeen(order_id))]
    /\ UNCHANGED <<now, dbVars, up, boot, hubVars>>

\* A $set that moves the status and stamps no time.
StartSetNoStamp(ts) == [status |-> "in_progress"]

\* The $set of start_order.
StartSet(ts) == [status |-> "in_progress", started_at |-> ts]

\* start_order from its await: the store executes update_one, and the handler
\* answers by modified_count.
StartOrderUpdate(c) ==
    /\ http[c].pc = "pending"
    /\ http[c].op = "start"
    /\ LET r == http[c]
           upd == StartSet(r.ts)
       IN /\ orders' = UpdateOne(orders, r.oid, upd)
          /\ http' = [http EXCEPT ![c] =
                IF ModifiedCount(orders, r.oid, upd) = 0
                THEN Done("start", r.path, r.pre, ExceptStatus("HTTPException"),
                          NotFoundDetail, <<>>)
                ELSE Done("start", r.path, r.pre, 200, "",
                          <<[message |-> "Order started successfully"]>>)]
    /\ UNCHANGED <<now, nextOid, delivery_agents, up, boot, hubVars>>

\* complete_order up to its await.
CompleteOrderCall(c, order_id) ==
    /\ up
    /\ http[c].pc # "pending"
    /\ http' = [http EXCEPT ![c] =
            IF ObjectId(order_id) = InvalidId
            THEN Done("complete", order_id, StatusSeen(order_id),
                      ExceptStatus("InvalidId"), InvalidIdDetail, <<>>)
            ELSE Pending("complete", order_id, ObjectId(order_id), now,
                         StatusSeen(order_id))]
    /\ UNCHANGED <<now, dbVars, up, boot, hubVars>>

\* The $set of complete_order.
CompleteSet(ts) == [status |-> "completed", completed_at |-> ts]

\* complete_order from its await.
CompleteOrderUpdate(c) ==
    /\ http[c].pc = "pending"
    /\ http[c].op = "complete"
    /\ LET r == http[c]
           upd == CompleteSet(r.ts)
       IN /\ orders' = UpdateOne(orders, r.oid, upd)
          /\ http' = [http EXCEPT ![c] =
                IF ModifiedCount(orders, r.oid, upd) = 0
                THEN Done("complete", r.path, r.pre, ExceptStatus("HTTPException"),
                          NotFoundDetail, <<>>)
                ELSE Done("complete", r.path, r.pre, 200, "",
                          <<[message |-> "Order completed successfully"]>>)]
    /\ UNCHANGED <<now, nextOid, delivery_agents, up, boot, hubVars>>

\* A response model that leaves both transition timestamps out.
OrderModelNoStamps(oid, order) ==
    [ id |-> StrOfOid(oid),
      order_number |-> order.order_number,
      pickup_location |-> order.pickup_location,
      delivery_location |-> order.delivery_location,
      assigned_agent_id |-> order.assigned_agent_id,
      status |-> order.status,
      customer_info |-> order.customer_info,
      created_at |-> order.created_at,
      started_at |-> None,
      completed_at |-> None ]

\* The Order response model built from a stored document.
OrderModel(oid, order) ==
    [ id |-> StrOfOid(oid),
      order_number |-> order.order_number,
      pickup_location |-> order.pickup_location,
      delivery_location |-> order.delivery_location,
      assigned_agent_id |-> order.assigned_agent_id,
      status |-> order.status,
      customer_info |-> order.customer_info,
      created_at |-> order.created_at,
      started_at |-> Get(order, "started_at"),
      completed_at |-> Get(order, "completed_at") ]

\* get_order_detail: the find_one is a single read, so the handler is one step.
get_order_detail(c, order_id) ==
    /\ up
    /\ http[c].pc # "pending"
    /\ LET oid == ObjectId(order_id)
           pre == StatusSeen(order_id)
       IN http' = [http EXCEPT ![c] =
            IF oid = InvalidId
            THEN Done("get", order_id, pre, ExceptStatus("InvalidId"), InvalidIdDetail, <<>>)
            ELSE IF FindOne(orders, oid) = <<>>
            THEN Done("get", order_id, pre, ExceptStatus("HTTPException"), NotFoundDetail, <<>>)
            ELSE Done("get", order_id, pre, 200, "", <<OrderModel(oid, orders[oid])>>)]
    /\ UNCHANGED <<now, dbVars, up, boot, hubVars>>

\* The elements of a set of ids as a sequence, in the order they were generated.
RECURSIVE InOrder(_)
InOrder(S) ==
    IF S = {} THEN <<>>
    ELSE LET m == CHOOSE x \in S : \A y \in S : x <= y
         IN <<m>> \o InOrder(S \ {m})

\* The credentials the clients send: the test agent's and the invalid pair.
Usernames == {"agent1", "invalid_user"}
Passwords == {"password123", "wrong_password"}

\* The values str(uuid.uuid4()) can take.
Tokens == {"uuid-a", "uuid-b"}

\* find_one({"username": username}): <<>> or the first agent with that name.
FindOneByUsername(coll, username) ==
    LET ids == InOrder({a \in DOMAIN coll : coll[a].username = username})
    IN IF ids = <<>> THEN <<>> ELSE <<ids[1]>>

\* A rejection whose detail names the check that failed.
LoginRejectedByCause(cause) ==
    [code |-> 401, detail |-> IF cause = "agent" THEN "Unknown user" ELSE "Wrong password"]

\* The HTTPException login raises when the agent is missing (cause "agent")
\* and when the password does not verify (cause "password").
LoginRejected(cause) == [code |-> 401, detail |-> "Invalid credentials"]

\* DeliveryAgentResponse of a stored agent and a fresh token.
DeliveryAgentResponse(id, agent, token) ==
    [ id |-> StrOfOid(id), username |-> agent.username, name |-> agent.name,
      phone |-> agent.phone, status |-> agent.status, token |-> token ]

\* login: one read of delivery_agents, then the password check.
login(c, username, password) ==
    /\ up
    /\ http[c].pc # "pending"
    /\ LET found == FindOneByUsername(delivery_agents, username)
       IN IF found = <<>>
          THEN http' = [http EXCEPT ![c] =
                  Done("login", username, "", LoginRejected("agent").code,
                       LoginRejected("agent").detail, <<>>)]
          ELSE IF ~verify_password(password, delivery_agents[found[1]].password)
          THEN http' = [http EXCEPT ![c] =
                  Done("login", username, "", LoginRejected("password").code,
                       LoginRejected("password").detail, <<>>)]
          ELSE \E token \in Tokens :
                  http' = [http EXCEPT ![c] =
                      Done("login", username, "", 200, "",
                           <<DeliveryAgentResponse(found[1], delivery_agents[found[1]], token)>>)]
    /\ UNCHANGED <<now, dbVars, up, boot, hubVars>>

\* The agent ids the clients send: the test agent's, a well-formed id no
\* agent has, and a string that is no ObjectId.
AgentIds == {StrOfOid(1), UnknownId, MalformedId}

\* A find that ignores its filter: the ids of all documents.
FindAll(coll, agent_id, n) ==
    LET ids == InOrder(DOMAIN coll)
    IN SubSeq(ids, 1, IF Len(ids) < n THEN Len(ids) ELSE n)

\* find({"assigned_agent_id": agent_id}).to_list(n): the ids of the first n
\* documents assigned to agent_id.
FindByAgent(coll, agent_id, n) ==
    LET ids == InOrder({o \in DOMAIN coll : coll[o].assigned_agent_id = agent_id})
    IN SubSeq(ids, 1, IF Len(ids) < n THEN Len(ids) ELSE n)

\* get_assigned_orders: one read; the agent id is compared as a string.
get_assigned_orders(c, agent_id) ==
    /\ up
    /\ http[c].pc # "pending"
    /\ LET ids == FindByAgent(orders, agent_id, PageSize)
       IN http' = [http EXCEPT ![c] =
            Done("assigned", agent_id, "", 200, "",
                 [i \in 1..Len(ids) |-> OrderModel(ids[i], orders[ids[i]])])]
    /\ UNCHANGED <<now, dbVars, up, boot, hubVars>>

\* ------------------------------------------------------------ Socket.IO
\* An emit that reaches every session the server has ever registered.
EmitToEverySession(boxes, sessions, event, data) ==
    [s \in DOMAIN boxes |-> Append(boxes[s], [event |-> event, data |-> data])]

\* sio.emit(event, data) without a recipient: the event is sent to every
\* connected session.
Emit(boxes, sessions, event, data) ==
    [s \in DOMAIN boxes |->
        IF s \in sessions
        THEN Append(boxes[s], [event |-> event, data |-> data])
        ELSE boxes[s]]

\* connect: the server registers the new session under a fresh sid, and the
\* handler emits connection_response.
connect ==
    /\ up
    /\ nextSid <= MaxSessions
    /\ LET sid == nextSid
       IN /\ connected' = connected \cup {sid}
          /\ inbox' = Emit(inbox @@ (sid :> <<>>), connected', "connection_response",
                           [status |-> "connected", sid |-> sid])
    /\ nextSid' = nextSid + 1
    /\ UNCHANGED <<now, up, boot, dbVars, http, inserts, location_history, logged, unhandled, emitting, updates>>

\* disconnect: the server drops the session; the handler only logs.
disconnect(sid) ==
    /\ sid \in connected
    /\ connected' = connected \ {sid}
    /\ UNCHANGED <<now, up, boot, dbVars, http, nextSid, inbox, inserts, location_history, logged, unhandled, emitting, updates>>

\* The location_update payloads the sessions send; coordinates in 1/10000 degree.
Payloads ==
    { [agent_id |-> StrOfOid(1), order_id |-> StrOfOid(2), lat |-> 174000, lng |-> 784700],
      [agent_id |-> StrOfOid(1), order_id |-> StrOfOid(3), lat |-> 174065, lng |-> 784772] }

\* A stored document with latitude and longitude exchanged.
LocationSampleSwapped(data, t) ==
    [ agent_id |-> Get(data, "agent_id"), order_id |-> Get(data, "order_id"),
      lat |-> Get(data, "lng"), lng |-> Get(data, "lat"), timestamp |-> t ]

\* The document location_update stores.
LocationSample(data, t) ==
    [ agent_id |-> Get(data, "agent_id"), order_id |-> Get(data, "order_id"),
      lat |-> Get(data, "lat"), lng |-> Get(data, "lng"), timestamp |-> t ]

\* The location_update events received so far: those awaiting the emit or
\* the insert, and those ended by a stored sample, a logged error or an
\* exception.
UpdatesReceived ==
    BagCardinality(emitting) + BagCardinality(inserts) + Len(location_history)
        + logged + unhandled

\* The record of a location_update received while sessions were connected.
Update(data, sessions) == [data |-> data, sessions |-> sessions]

\* A location_update that relays to everyone but the sender (skip_sid=sid).
LocationUpdateSkipSender(sid, data) ==
    /\ sid \in connected
    /\ UpdatesReceived < MaxUpdates
    /\ inbox' = Emit(inbox, connected \ {sid}, "agent_location_update", data)
    /\ emitting' = emitting (+) SetToBag({data})
    /\ updates' = Append(updates, Update(data, connected))
    /\ UNCHANGED <<now, up, boot, dbVars, http, nextSid, connected, inserts,
                   location_history, logged, unhandled>>

\* A location_update that relays nothing before it stores: the relay is left
\* to the insert's success.
LocationUpdateStoreFirst(sid, data) ==
    /\ sid \in connected
    /\ UpdatesReceived < MaxUpdates
    /\ emitting' = emitting (+) SetToBag({data})
    /\ updates' = Append(updates, Update(data, connected))
    /\ UNCHANGED <<now, up, boot, dbVars, http, nextSid, connected, inbox, inserts,
                   location_history, logged, unhandled>>

\* location_update up to its first await: the payload is emitted as
\* agent_location_update to the connected sessions, and the handler waits for
\* sio.emit to return.
LocationUpdateEmit(sid, data) ==
    /\ sid \in connected
    /\ UpdatesReceived < MaxUpdates
    /\ inbox' = Emit(inbox, connected, "agent_location_update", data)
    /\ emitting' = emitting (+) SetToBag({data})
    /\ updates' = Append(updates, Update(data, connected))
    /\ UNCHANGED <<now, up, boot, dbVars, http, nextSid, connected, inserts,
                   location_history, logged, unhandled>>

\* location_update from the return of sio.emit to the await of insert_one:
\* the document is built with timestamp = utcnow() and the insert is issued.
LocationUpdateIssue(data) ==
    /\ BagIn(data, emitting)
    /\ emitting' = emitting (-) SetToBag({data})
    /\ inserts' = inserts (+) SetToBag({LocationSample(data, now)})
    /\ UNCHANGED <<now, up, boot, dbVars, http, nextSid, connected, inbox,
                   location_history, logged, unhandled, updates>>

\* A location_update whose insert was issued before the emit was awaited:
\* the emit raises, and the insert is on its way all the same.
LocationUpdateEmitRaisesStored(data) ==
    /\ BagIn(data, emitting)
    /\ emitting' = emitting (-) SetToBag({data})
    /\ inserts' = inserts (+) SetToBag({LocationSample(data, now)})
    /\ unhandled' = unhandled + 1
    /\ UNCHANGED <<now, up, boot, dbVars, http, nextSid, connected, inbox,
                   location_history, logged, updates>>

\* location_update when the awaited sio.emit raises: the exception leaves the
\* handler before the try block, so no document is built and no insert is
\* issued.
LocationUpdateEmitRaises(data) ==
    /\ BagIn(data, emitting)
    /\ emitting' = emitting (-) SetToBag({data})
    /\ unhandled' = unhandled + 1
    /\ UNCHANGED <<now, up, boot, dbVars, http, nextSid, connected, inbox, inserts,
                   location_history, logged, updates>>

\* An insert that keeps one document per content (an upsert on the fields).
LocationInsertDedup(doc) ==
    /\ BagIn(doc, inserts)
    /\ location_history' =
          IF \E k \in DOMAIN location_history : location_history[k] = doc
          THEN location_history
          ELSE Append(location_history, doc)
    /\ inserts' = inserts (-) SetToBag({doc})
    /\ UNCHANGED <<now, up, boot, dbVars, http, nextSid, connected, inbox, logged, unhandled, emitting, updates>>

\* An insert that also writes the position onto the order the sample names.
LocationInsertOnOrder(doc) ==
    /\ BagIn(doc, inserts)
    /\ location_history' = Append(location_history, doc)
    /\ inserts' = inserts (-) SetToBag({doc})
    /\ orders' = UpdateOne(orders, ObjectId(doc.order_id),
                           [last_lat |-> doc.lat, last_lng |-> doc.lng])
    /\ UNCHANGED <<now, up, boot, nextOid, delivery_agents, http, nextSid, connected, inbox, logged, unhandled, emitting, updates>>

\* insert_one succeeds: the document is stored.
LocationInsertOk(doc) ==
    /\ BagIn(doc, inserts)
    /\ location_history' = Append(location_history, doc)
    /\ inserts' = inserts (-) SetToBag({doc})
    /\ UNCHANGED <<now, up, boot, dbVars, http, nextSid, connected, inbox, logged, unhandled, emitting, updates>>

\* insert_one raises: the handler logs the error and ends.
LocationInsertFails(doc) ==
    /\ BagIn(doc, inserts)
    /\ logged' = logged + 1
    /\ inserts' = inserts (-) SetToBag({doc})
    /\ UNCHANGED <<now, up, boot, dbVars, http, nextSid, connected, inbox, location_history, unhandled, emitting, updates>>

\* ------------------------------------------------------------ specification
\* No session is connected and nothing is stored.
HubInit ==
    /\ nextSid = 1
    /\ connected = {}
    /\ inbox = <<>>
    /\ emitting = EmptyBag
    /\ inserts = EmptyBag
    /\ location_history = <<>>
    /\ logged = 0
    /\ unhandled = 0
    /\ updates = <<>>

\* One client: the requests arrive one after another.
Init ==
    /\ now = 0
    /\ nextOid = 1
    /\ delivery_agents = <<>>
    /\ orders = <<>>
    /\ up = FALSE
    /\ boot = [p \in {"p1"} |-> NotBooted]
    /\ http = [c \in {"c1"} |-> Idle]
    /\ HubInit

\* The server as startup_event leaves it on an empty database at time 0.
InitStarted ==
    /\ now = 0
    /\ nextOid = 1 + 1 + NumSeedOrders
    /\ delivery_agents = InsertMany(<<>>, 1, <<TestAgent(0)>>)
    /\ orders = InsertMany(<<>>, 2, [i \in 1..NumSeedOrders |-> TestOrder(i, StrOfOid(1), 0)])
    /\ up = TRUE
    /\ boot = [p \in {"p1"} |-> Booted(FALSE)]
    /\ http = [c \in {"c1"} |-> Idle]
    /\ HubInit

\* Two server processes on one empty database, whose startups overlap.
InitBoot ==
    /\ now = 0
    /\ nextOid = 1
    /\ delivery_agents = <<>>
    /\ orders = <<>>
    /\ up = FALSE
    /\ boot = [p \in {"p1", "p2"} |-> NotBooted]
    /\ http = [c \in {"c1"} |-> Idle]
    /\ HubInit

\* Two clients, whose requests overlap.
InitRace ==
    /\ now = 0
    /\ nextOid = 1
    /\ delivery_agents = <<>>
    /\ orders = <<>>
    /\ up = FALSE
    /\ boot = [p \in {"p1"} |-> NotBooted]
    /\ http = [c \in Clients |-> Idle]
    /\ HubInit

\* The steps of start_order and complete_order, called with the ids in ids.
Transition(ids) ==
    \/ \E c \in DOMAIN http, order_id \in ids : StartOrderCall(c, order_id)
    \/ \E c \in DOMAIN http : StartOrderUpdate(c)
    \/ \E c \in DOMAIN http, order_id \in ids : CompleteOrderCall(c, order_id)
    \/ \E c \in DOMAIN http : CompleteOrderUpdate(c)

NextOrders ==
    \/ \E p \in DOMAIN boot : startup_event(p)
    \/ Tick
    \/ Transition(PathIds)
    \/ \E c \in DOMAIN http, order_id \in PathIds : get_order_detail(c, order_id)
    \/ \E c \in DOMAIN http, agent_id \in AgentIds : get_assigned_orders(c, agent_id)
    \/ \E c \in DOMAIN http, username \in Usernames, password \in Passwords :
            login(c, username, password)

NextRace ==
    \/ \E p \in DOMAIN boot : startup_event(p)
    \/ Tick
    \/ Transition(RaceIds)

NextHub ==
    \/ Tick
    \/ connect
    \/ \E sid \in connected : disconnect(sid)
    \/ \E sid \in connected, data \in Payloads : LocationUpdateEmit(sid, data)
    \/ \E data \in BagToSet(emitting) : LocationUpdateIssue(data)
    \/ \E data \in BagToSet(emitting) : LocationUpdateEmitRaises(data)
    \/ \E doc \in BagToSet(inserts) : LocationInsertOk(doc)
    \/ \E doc \in BagToSet(inserts) : LocationInsertFails(doc)

\* The startups of the server processes, and the clock.
NextBoot ==
    \/ \E p \in DOMAIN boot : startup_event(p)
    \/ Tick

\* Every handler of the server together.  To keep the run finite and short
\* the inputs are narrower than in the other specifications: one client
\* calls the HTTP handlers, start, complete and get_order_detail address the
\* one order of RaceIds, the clock stops at MaxFrameClock, and the sessions
\* send MaxFrameUpdates location_update events in all.
NextFrame ==
    \/ \E p \in DOMAIN boot : startup_event(p)
    \/ (now < MaxFrameClock /\ Tick)
    \/ Transition(RaceIds)
    \/ \E c \in DOMAIN http, order_id \in RaceIds : get_order_detail(c, order_id)
    \/ \E c \in DOMAIN http, agent_id \in AgentIds : get_assigned_orders(c, agent_id)
    \/ \E c \in DOMAIN http, username \in Usernames, password \in Passwords :
            login(c, username, password)
    \/ connect
    \/ \E sid \in connected : disconnect(sid)
    \/ \E sid \in connected, data \in Payloads :
            UpdatesReceived < MaxFrameUpdates /\ LocationUpdateEmit(sid, data)
    \/ \E data \in BagToSet(emitting) : LocationUpdateIssue(data)
    \/ \E data \in BagToSet(emitting) : LocationUpdateEmitRaises(data)
    \/ \E doc \in BagToSet(inserts) : LocationInsertOk(doc)
    \/ \E doc \in BagToSet(inserts) : LocationInsertFails(doc)

\* The order handlers, called by one client.
SpecOrders == Init /\ [][NextOrders]_vars

\* start and complete, called by two clients at once.
SpecRace == InitRace /\ [][NextRace]_vars

\* The Socket.IO handlers, on the started server.
SpecHub == InitStarted /\ [][NextHub]_vars

\* startup_event run by two server processes at once.
SpecBoot == InitBoot /\ [][NextBoot]_vars

\* All handlers together, from the empty database, with the narrower inputs
\* of NextFrame.
SpecFrame == Init /\ [][NextFrame]_vars

\* ------------------------------------------------------------ claims
\* The response is an error of any kind (InvalidTransition and NotFound
\* included).
Failed(resp) == resp.code # 200

\* C1: start succeeds only on a pending order: the update step of a start on
\* a stored order whose status is in_progress or completed answers with an
\* error and leaves status and started_at as they were; on a pending order
\* it answers 200, sets status in_progress and started_at to the time read.
C1_StartRequiresPending ==
    [][\A c \in DOMAIN http :
        (StartOrderUpdate(c) /\ http[c].oid \in DOMAIN orders) =>
            LET o == http[c].oid
            IN IF orders[o].status = "pending"
               THEN /\ ~Failed(http'[c])
                    /\ orders'[o].status = "in_progress"
                    /\ Get(orders'[o], "started_at") = http[c].ts
               ELSE /\ Failed(http'[c])
                    /\ orders'[o].status = orders[o].status
                    /\ Get(orders'[o], "started_at") = Get(orders[o], "started_at")
      ]_vars

\* C2: complete succeeds only on an in_progress order: the update step of a
\* complete on a stored order whose status is pending or completed answers
\* with an error and leaves status and completed_at as they were; on an
\* in_progress order it answers 200, sets status completed and completed_at
\* to the time read.
C2_CompleteRequiresInProgress ==
    [][\A c \in DOMAIN http :
        (CompleteOrderUpdate(c) /\ http[c].oid \in DOMAIN orders) =>
            LET o == http[c].oid
            IN IF orders[o].status = "in_progress"
               THEN /\ ~Failed(http'[c])
                    /\ orders'[o].status = "completed"
                    /\ Get(orders'[o], "completed_at") = http[c].ts
               ELSE /\ Failed(http'[c])
                    /\ orders'[o].status = orders[o].status
                    /\ Get(orders'[o], "completed_at") = Get(orders[o], "completed_at")
      ]_vars

\* The steps of the order state machine, and staying put.
LegalStatusSteps ==
    { <<"pending", "pending">>, <<"pending", "in_progress">>,
      <<"in_progress", "in_progress">>, <<"in_progress", "completed">>,
      <<"completed", "completed">> }

\* C3: every step takes every order's status along pending -> in_progress ->
\* completed or leaves it: never pending -> completed, never backwards, and
\* never out of completed.
C3_StatusMovesForward ==
    [][\A o \in DOMAIN orders :
        <<orders[o].status, orders'[o].status>> \in LegalStatusSteps]_vars

\* C4: in every state, an order has started_at exactly when its status is
\* in_progress or completed, and completed_at exactly when it is completed.
C4_TimestampsMatchStatus ==
    \A o \in DOMAIN orders :
        /\ ("started_at" \in DOMAIN orders[o])
               <=> (orders[o].status \in {"in_progress", "completed"})
        /\ ("completed_at" \in DOMAIN orders[o])
               <=> (orders[o].status = "completed")

\* C5: a start on an order that was started before never resets started_at,
\* whether that second call fails or does nothing.
C5_StartedAtNeverReset ==
    [][\A c \in DOMAIN http :
        ( /\ StartOrderUpdate(c)
          /\ http[c].oid \in DOMAIN orders
          /\ "started_at" \in DOMAIN orders[http[c].oid] ) =>
            Get(orders'[http[c].oid], "started_at") = orders[http[c].oid].started_at
      ]_vars

\* The status a transition requires.
Required(op) == IF op = "start" THEN "pending" ELSE "in_progress"

\* C6: of two overlapping start calls that both arrived while the order was
\* pending (two complete calls, while it was in_progress), exactly one
\* reports success.
C6_OneWinner ==
    \A c1, c2 \in DOMAIN http :
        ( /\ c1 # c2
          /\ http[c1].pc = "done" /\ http[c2].pc = "done"
          /\ http[c1].op \in {"start", "complete"}
          /\ http[c2].op = http[c1].op
          /\ http[c2].path = http[c1].path
          /\ http[c1].pre = Required(http[c1].op)
          /\ http[c2].pre = Required(http[c2].op) ) =>
            (http[c1].code = 200) # (http[c2].code = 200)

\* C7: a fetch by an id that no stored order has, or by a malformed id, is
\* answered 404; a fetch of a stored order is answered 200 with that order.
C7_GetNotFound ==
    \A c \in DOMAIN http :
        (http[c].pc = "done" /\ http[c].op = "get") =>
            IF http[c].pre = "absent"
            THEN http[c].code = 404
            ELSE /\ http[c].code = 200
                 /\ http[c].body = <<OrderModel(ObjectId(http[c].path),
                                                orders[ObjectId(http[c].path)])>>

\* C8: a start or complete on a well-formed id that no stored order has is
\* answered 404 and changes no order.
C8_TransitionNotFound ==
    [][\A c \in DOMAIN http :
        ( /\ StartOrderUpdate(c) \/ CompleteOrderUpdate(c)
          /\ http[c].oid \notin DOMAIN orders ) =>
            /\ http'[c].code = 404
            /\ orders' = orders
      ]_vars

\* The handler took its "Order not found" branch.
NotFoundOutcome(resp) == resp.code = 404 \/ resp.detail = NotFoundDetail

\* C9: a start or complete on the id of a stored order never ends in the
\* not-found outcome, also when the $set writes the values already stored.
C9_FoundWhenStored ==
    [][\A c \in DOMAIN http :
        ( /\ StartOrderUpdate(c) \/ CompleteOrderUpdate(c)
          /\ http[c].oid \in DOMAIN orders ) =>
            ~NotFoundOutcome(http'[c])
      ]_vars

\* An agent_location_update event carrying data.
Relayed(data) == [event |-> "agent_location_update", data |-> data]

\* C10: the step that receives a location_update appends the payload,
\* unchanged, as agent_location_update to the inbox of every session
\* connected at that moment, the sender's included.
C10_BroadcastToAll ==
    [][\A sid \in connected, data \in Payloads :
        LocationUpdateEmit(sid, data) =>
            \A t \in connected : inbox'[t] = Append(inbox[t], Relayed(data))
      ]_vars

\* C10 witness: two sessions are connected, one of them has sent a
\* location_update, and the last event each of the two received is that
\* payload relayed.
C10_Witness ==
    /\ Cardinality(connected) >= 2
    /\ BagCardinality(emitting) > 0
    /\ \E data \in Payloads : \A t \in connected :
          /\ Len(inbox[t]) > 0
          /\ inbox[t][Len(inbox[t])] = Relayed(data)

\* The payload a stored document was built from.
PayloadOf(doc) ==
    [agent_id |-> doc.agent_id, order_id |-> doc.order_id, lat |-> doc.lat, lng |-> doc.lng]

\* The payload was relayed to session s.
RelayedTo(s, data) == \E k \in DOMAIN inbox[s] : inbox[s][k] = Relayed(data)

\* How many agent_location_update events carrying data session s was sent.
Received(s, data) ==
    Cardinality({k \in DOMAIN inbox[s] : inbox[s][k] = Relayed(data)})

\* How many location_update events carrying data the server received while
\* session s was connected.
SentWhileConnected(s, data) ==
    Cardinality({k \in DOMAIN updates : updates[k].data = data /\ s \in updates[k].sessions})

\* C11: when insert_one fails for the sample of a location_update, every
\* session that was connected when the server received an update with that
\* payload has been sent the event, once per such update and the failed one
\* included, whether or not the session is still connected; the failure takes
\* nothing back from any inbox; and the handler ends with one line logged, no
\* exception propagated and nothing stored.
C11_FailureKeepsBroadcast ==
    [][\A doc \in BagToSet(inserts) :
        LocationInsertFails(doc) =>
            LET data == PayloadOf(doc)
            IN /\ \E k \in DOMAIN updates : updates[k].data = data
               /\ \A k \in DOMAIN updates :
                     updates[k].data = data =>
                        /\ updates[k].sessions # {}
                        /\ \A s \in updates[k].sessions : RelayedTo(s, data)
               /\ \A s \in DOMAIN inbox : Received(s, data) = SentWhileConnected(s, data)
               /\ inbox' = inbox
               /\ unhandled' = unhandled
               /\ logged' = logged + 1
               /\ location_history' = location_history
               /\ inserts' (+) SetToBag({doc}) = inserts
      ]_vars

\* C11 witness: the insert of an update received while two sessions were
\* connected has failed; both sessions hold the relayed payload, one of them
\* has disconnected since, nothing is stored or pending and no handler ended
\* by an exception.
C11_Witness ==
    /\ logged > 0
    /\ unhandled = 0
    /\ location_history = <<>>
    /\ inserts = EmptyBag
    /\ emitting = EmptyBag
    /\ \E k \in DOMAIN updates :
          /\ Cardinality(updates[k].sessions) >= 2
          /\ \A s \in updates[k].sessions : RelayedTo(s, updates[k].data)
          /\ \E s \in updates[k].sessions : s \notin connected

\* C12: a location_update received starts exactly one handler, which after
\* its emit issues exactly one insert, of a document with the event's
\* agent_id, order_id, lat and lng and the server's time at that moment; and
\* an insert the store executes adds exactly that one document to
\* location_history.
C12_OneSamplePerUpdate ==
    [][ /\ \A sid \in connected, data \in Payloads :
            LocationUpdateEmit(sid, data) =>
                /\ emitting' = emitting (+) SetToBag({data})
                /\ inserts' = inserts
                /\ location_history' = location_history
        /\ \A data \in BagToSet(emitting) :
            LocationUpdateIssue(data) =>
                /\ inserts' = inserts (+) SetToBag({
                       [ agent_id |-> data.agent_id, order_id |-> data.order_id,
                         lat |-> data.lat, lng |-> data.lng, timestamp |-> now ] })
                /\ emitting' (+) SetToBag({data}) = emitting
                /\ location_history' = location_history
        /\ \A doc \in BagToSet(inserts) :
            LocationInsertOk(doc) =>
                /\ location_history' = Append(location_history, doc)
                /\ inserts' (+) SetToBag({doc}) = inserts
                /\ emitting' = emitting
                /\ PayloadOf(doc) \in Payloads
                /\ doc.timestamp \in 0..now
      ]_vars

\* C12 witness: both updates of a run are stored, one at a later server time
\* than the other, and nothing is pending or lost.
C12_Witness ==
    /\ Len(location_history) = MaxUpdates
    /\ inserts = EmptyBag
    /\ emitting = EmptyBag
    /\ logged = 0
    /\ \E i, j \in DOMAIN location_history :
          location_history[i].timestamp < location_history[j].timestamp

\* C13: location_history is append-only: every step leaves the stored
\* samples in place and unchanged and adds at most one at the end, and a
\* successful insert adds one even when an equal sample is already stored.
C13_AppendOnly ==
    [][ /\ Len(location_history') \in {Len(location_history), Len(location_history) + 1}
        /\ SubSeq(location_history', 1, Len(location_history)) = location_history
        /\ \A doc \in BagToSet(inserts) :
              LocationInsertOk(doc) => Len(location_history') = Len(location_history) + 1
      ]_vars

\* C13 witness: two location_update events with the same fields, received
\* at the same server time, are stored as two samples.
C13_Witness ==
    /\ Len(location_history) >= 2
    /\ location_history[1] = location_history[2]

\* The stored orders assigned to agent_id.
AssignedTo(agent_id) ==
    {o \in DOMAIN orders : orders[o].assigned_agent_id = agent_id}

\* C14: get_assigned_orders answers 200 with one entry for each stored order
\* assigned to the agent asked for, showing that order's stored status, and
\* with no other entry; for an agent with no orders the list is empty.
C14_FindByAgent ==
    \A c \in DOMAIN http :
        (http[c].pc = "done" /\ http[c].op = "assigned") =>
            /\ http[c].code = 200
            /\ Len(http[c].body) = Cardinality(AssignedTo(http[c].path))
            /\ {b.id : b \in {http[c].body[i] : i \in DOMAIN http[c].body}}
                   = {StrOfOid(o) : o \in AssignedTo(http[c].path)}
            /\ \A i \in DOMAIN http[c].body :
                  /\ http[c].body[i].assigned_agent_id = http[c].path
                  /\ http[c].body[i].status = orders[ObjectId(http[c].body[i].id)].status
            /\ (AssignedTo(http[c].path) = {}) => (http[c].body = <<>>)

\* C14 witness: the test agent's five orders are listed, one of them in
\* progress.
C14_Witness ==
    \E c \in DOMAIN http :
        /\ http[c].pc = "done" /\ http[c].op = "assigned"
        /\ Len(http[c].body) = NumSeedOrders
        /\ \E i \in DOMAIN http[c].body : http[c].body[i].status = "in_progress"

\* C15: a start executed on a pending order succeeds, and the order then reads
\* in_progress with a started_at that is set and not before created_at; a
\* complete executed on an in_progress order succeeds, and the order then reads
\* completed with a completed_at that is set and not before started_at.
C15_StartThenComplete ==
    [][ \A c \in DOMAIN http :
          LET o == http[c].oid
              before == orders[o]
              after == OrderModel(o, orders'[o])
          IN /\ (StartOrderUpdate(c) /\ o \in DOMAIN orders /\ before.status = "pending") =>
                    /\ http'[c].code = 200
                    /\ after.status = "in_progress"
                    /\ after.started_at # None
                    /\ after.started_at >= after.created_at
             /\ (CompleteOrderUpdate(c) /\ o \in DOMAIN orders
                    /\ before.status = "in_progress" /\ "started_at" \in DOMAIN before) =>
                    /\ http'[c].code = 200
                    /\ after.status = "completed"
                    /\ after.completed_at # None
                    /\ after.completed_at >= after.started_at
      ]_vars

\* C15 witness: an order seeded pending was started at a later time and
\* completed at a still later time, the complete answered with 200.
C15_Witness ==
    \E c \in DOMAIN http, o \in DOMAIN orders :
        /\ http[c].pc = "done" /\ http[c].op = "complete" /\ http[c].code = 200
        /\ http[c].path = StrOfOid(o)
        /\ http[c].pre = "in_progress"
        /\ orders[o].status = "completed"
        /\ Get(orders[o], "started_at") > orders[o].created_at
        /\ Get(orders[o], "completed_at") > Get(orders[o], "started_at")

\* What the client receives: status code, error detail and body.
Outcome(resp) == <<resp.code, resp.detail, resp.body>>

\* The stored agents named username whose password is password.
Authenticated(username, password) ==
    {a \in DOMAIN delivery_agents :
        /\ delivery_agents[a].username = username
        /\ delivery_agents[a].password = hash_password(password)}

\* C16: every login that fails, for an unknown username or for a wrong
\* password, receives the one outcome 401 "Invalid credentials" with no body;
\* a login with valid credentials receives 200 with the stored agent's id,
\* username, name, phone and status, and a token.
C16_LoginOutcomes ==
    [][ \A c \in DOMAIN http, username \in Usernames, password \in Passwords :
          login(c, username, password) =>
            IF Authenticated(username, password) = {}
            THEN Outcome(http'[c]) = <<401, "Invalid credentials", <<>>>>
            ELSE /\ http'[c].code = 200
                 /\ \E a \in Authenticated(username, password) :
                       LET b == http'[c].body[1]
                       IN /\ b.id = StrOfOid(a)
                          /\ b.username = delivery_agents[a].username
                          /\ b.name = delivery_agents[a].name
                          /\ b.phone = delivery_agents[a].phone
                          /\ b.status = delivery_agents[a].status
                          /\ b.token \in Tokens
                          /\ DOMAIN b = {"id", "username", "name", "phone", "status", "token"}
      ]_vars

\* C16 witness: a login for the stored agent's username was rejected, so the
\* cause was the password.
C16_Witness ==
    \E c \in DOMAIN http :
        /\ http[c].pc = "done" /\ http[c].op = "login" /\ http[c].code = 401
        /\ FindOneByUsername(delivery_agents, http[c].path) # <<>>

\* C17: disconnect removes the session from the connected set and changes no
\* order, no stored or pending sample and no inbox; a session that is not
\* connected stays out of the set and receives no further event, so no
\* agent_location_update handled after its disconnect reaches it.
C17_DisconnectedGetsNothing ==
    [][ /\ \A sid \in connected :
              disconnect(sid) =>
                  /\ connected' = connected \ {sid}
                  /\ orders' = orders
                  /\ location_history' = location_history
                  /\ inserts' = inserts
                  /\ inbox' = inbox
        /\ \A s \in DOMAIN inbox :
              s \notin connected => (s \notin connected' /\ inbox'[s] = inbox[s])
      ]_vars

\* C17 witness: a session has disconnected, and a session still connected
\* holds a relayed payload that the disconnected one never received.
C17_Witness ==
    \E s \in DOMAIN inbox, t \in connected, data \in Payloads :
        /\ s \notin connected
        /\ RelayedTo(t, data)
        /\ ~RelayedTo(s, data)

\* Field f of the stored order o appears in this step.
Appears(o, f) ==
    /\ o \in DOMAIN orders'
    /\ f \in DOMAIN orders'[o]
    /\ (o \notin DOMAIN orders \/ f \notin DOMAIN orders[o])

\* C18: fetching a stored order by id answers 200 with the id as a string and
\* the stored order_number, pickup_location, delivery_location,
\* assigned_agent_id, status, customer_info and created_at; started_at and
\* completed_at are the stored values, or null while the order has none.  An
\* order gets a started_at only from a start executed on it and a completed_at
\* only from a complete executed on it.
C18_RoundTrip ==
    [][ /\ \A c \in DOMAIN http, order_id \in PathIds :
              (get_order_detail(c, order_id) /\ ObjectId(order_id) \in DOMAIN orders) =>
                  LET d == orders[ObjectId(order_id)]
                      b == http'[c].body[1]
                  IN /\ http'[c].code = 200
                     /\ Len(http'[c].body) = 1
                     /\ b.id = order_id
                     /\ b.order_number = d.order_number
                     /\ b.pickup_location = d.pickup_location
                     /\ b.delivery_location = d.delivery_location
                     /\ b.assigned_agent_id = d.assigned_agent_id
                     /\ b.status = d.status
                     /\ b.customer_info = d.customer_info
                     /\ b.created_at = d.created_at
                     /\ b.started_at =
                          (IF "started_at" \in DOMAIN d THEN d.started_at ELSE None)
                     /\ b.completed_at =
                          (IF "completed_at" \in DOMAIN d THEN d.completed_at ELSE None)
        /\ \A o \in DOMAIN orders' :
              /\ Appears(o, "started_at") =>
                    \E c \in DOMAIN http : StartOrderUpdate(c) /\ http[c].oid = o
              /\ Appears(o, "completed_at") =>
                    \E c \in DOMAIN http : CompleteOrderUpdate(c) /\ http[c].oid = o
      ]_vars

\* C18 witness: an order that was started and not completed is fetched: the
\* response carries its started_at and a null completed_at.
C18_Witness ==
    \E c \in DOMAIN http :
        /\ http[c].pc = "done" /\ http[c].op = "get" /\ http[c].code = 200
        /\ http[c].body[1].status = "in_progress"
        /\ http[c].body[1].started_at # None
        /\ http[c].body[1].completed_at = None

\* C19: a start or complete answered with 200 on order o leaves the set of
\* orders, every other order and every field of o other than status and the
\* transition's own timestamp (started_at for start, completed_at for
\* complete) as they were, adds no key but that timestamp, and changes neither
\* the stored nor the pending samples, the agents or the sessions.
C19_TransitionFrame ==
    [][ \A c \in DOMAIN http :
          ((StartOrderUpdate(c) \/ CompleteOrderUpdate(c)) /\ http'[c].code = 200) =>
              LET o == http[c].oid
                  stamp == IF http[c].op = "start" THEN "started_at" ELSE "completed_at"
              IN /\ o \in DOMAIN orders
                 /\ DOMAIN orders' = DOMAIN orders
                 /\ \A p \in DOMAIN orders \ {o} : orders'[p] = orders[p]
                 /\ DOMAIN orders'[o] = DOMAIN orders[o] \cup {stamp}
                 /\ \A f \in DOMAIN orders[o] \ {"status", stamp} :
                        orders'[o][f] = orders[o][f]
                 /\ location_history' = location_history
                 /\ inserts' = inserts
                 /\ delivery_agents' = delivery_agents
                 /\ inbox' = inbox
                 /\ connected' = connected
      ]_vars

\* C19 witness: a complete was answered with 200 on an order that had been
\* started, while a sample naming that order is stored and another order is
\* still pending.
C19_Witness ==
    \E c \in DOMAIN http, o \in DOMAIN orders, p \in DOMAIN orders :
        /\ http[c].pc = "done" /\ http[c].op = "complete" /\ http[c].code = 200
        /\ http[c].path = StrOfOid(o)
        /\ orders[o].status = "completed"
        /\ "started_at" \in DOMAIN orders[o]
        /\ orders[p].status = "pending"
        /\ \E k \in DOMAIN location_history : location_history[k].order_id = StrOfOid(o)

\* C20: once startup_event has run, no step adds or removes an order, and a
\* step that changes an order is the update of a start or of a complete;
\* login, get_assigned_orders, get_order_detail, connect, disconnect and the
\* steps of location_update leave the orders as they are.
C20_OrdersChangeOnlyByTransitions ==
    [][ /\ up => DOMAIN orders' = DOMAIN orders
        /\ (up /\ orders' # orders) =>
              \E c \in DOMAIN http : StartOrderUpdate(c) \/ CompleteOrderUpdate(c)
        /\ ( \/ \E c \in DOMAIN http, username \in Usernames, password \in Passwords :
                    login(c, username, password)
             \/ \E c \in DOMAIN http, agent_id \in AgentIds : get_assigned_orders(c, agent_id)
             \/ \E c \in DOMAIN http, order_id \in RaceIds : get_order_detail(c, order_id)
             \/ connect
             \/ \E sid \in connected : disconnect(sid)
             \/ \E sid \in connected, data \in Payloads : LocationUpdateEmit(sid, data)
             \/ \E data \in BagToSet(emitting) :
                    LocationUpdateIssue(data) \/ LocationUpdateEmitRaises(data)
             \/ \E doc \in BagToSet(inserts) : LocationInsertOk(doc) \/ LocationInsertFails(doc)
           ) => orders' = orders
      ]_vars

\* C20 witness: a session has come and gone, another is connected, a sample
\* is stored, a read request was answered with 200, and the orders are the
\* five that startup_event inserted, unchanged.
C20_Witness ==
    /\ \E s \in DOMAIN inbox : s \notin connected
    /\ connected # {}
    /\ Len(location_history) >= 1
    /\ \E c \in DOMAIN http :
          /\ http[c].pc = "done" /\ http[c].code = 200
          /\ http[c].op \in {"login", "assigned", "get"}
    /\ orders = InsertMany(<<>>, 2, [i \in 1..NumSeedOrders |-> TestOrder(i, StrOfOid(1), 0)])

\* Client c's start or complete request gets its answer in this step.
Answered(c) ==
    \/ \E order_id \in PathIds : StartOrderCall(c, order_id) \/ CompleteOrderCall(c, order_id)
    \/ StartOrderUpdate(c)
    \/ CompleteOrderUpdate(c)

\* C21: a step in which a start or complete request is answered with a status
\* other than 200 leaves every stored order as it was.
C21_ErrorLeavesOrders ==
    [][ \A c \in DOMAIN http :
          (Answered(c) /\ http'[c].pc = "done" /\ http'[c].code # 200) =>
              orders' = orders
      ]_vars

\* C21 witness: a start on a stored order that is in progress was answered
\* with the error of an update that modified nothing.
C21_Witness ==
    \E c \in DOMAIN http, o \in DOMAIN orders :
        /\ http[c].pc = "done" /\ http[c].op = "start" /\ http[c].code = 500
        /\ http[c].detail = NotFoundDetail
        /\ http[c].path = StrOfOid(o)
        /\ orders[o].status = "in_progress"

\* C22: in every state, an order that has both started_at and completed_at
\* has completed_at >= started_at.
C22_CompletedNotBeforeStarted ==
    \A o \in DOMAIN orders :
        ("started_at" \in DOMAIN orders[o] /\ "completed_at" \in DOMAIN orders[o]) =>
            orders[o].completed_at >= orders[o].started_at

\* C23: in every state, a connection_response a session has received carries
\* that session's own identifier: the event of a connect reaches the
\* connecting session alone.
C23_ResponseToSelfOnly ==
    \A t \in DOMAIN inbox : \A k \in DOMAIN inbox[t] :
        inbox[t][k].event = "connection_response" => inbox[t][k].data.sid = t

\* C24: an insert is issued only by a handler whose emit has returned: the
\* step that issues it takes the sample's payload out of the handlers waiting
\* on sio.emit, and the payload is by then in a session's inbox; a sample
\* enters the store only after its payload was relayed; and when the emit of
\* a location_update raises, its handler ends: it waits no longer, issues no
\* insert and stores nothing.
C24_InsertAfterEmit ==
    [][ /\ \A doc \in BagToSet(inserts') :
              CopiesIn(doc, inserts') > CopiesIn(doc, inserts) =>
                  /\ BagIn(PayloadOf(doc), emitting)
                  /\ emitting' (+) SetToBag({PayloadOf(doc)}) = emitting
                  /\ \E s \in DOMAIN inbox : RelayedTo(s, PayloadOf(doc))
                  /\ inbox' = inbox
        /\ \A doc \in BagToSet(inserts) :
              LocationInsertOk(doc) => \E s \in DOMAIN inbox : RelayedTo(s, PayloadOf(doc))
        /\ \A data \in BagToSet(emitting) :
              LocationUpdateEmitRaises(data) =>
                  /\ emitting' (+) SetToBag({data}) = emitting
                  /\ inserts' = inserts
                  /\ location_history' = location_history
                  /\ inbox' = inbox
      ]_vars

\* C24 witness: one update's emit raised after the event had reached a
\* session, and no sample of that payload is stored, pending or awaited, while
\* the sample of another update is stored.
C24_Witness ==
    /\ unhandled > 0
    /\ Len(location_history) >= 1
    /\ \E data \in Payloads :
          /\ \E s \in DOMAIN inbox : RelayedTo(s, data)
          /\ \A k \in DOMAIN location_history : PayloadOf(location_history[k]) # data
          /\ \A doc \in BagToSet(inserts) : PayloadOf(doc) # data
          /\ \A d \in BagToSet(emitting) : d # data

\* The stored agents named agent1.
Agent1 == {a \in DOMAIN delivery_agents : delivery_agents[a].username = "agent1"}

\* One agent1, and five orders numbered HYD001..HYD005, one each, assigned to
\* that agent, each with a status among the three.
Seeded ==
    /\ Cardinality(Agent1) = 1
    /\ Cardinality(DOMAIN orders) = 5
    /\ {orders[o].order_number : o \in DOMAIN orders}
           = {"HYD001", "HYD002", "HYD003", "HYD004", "HYD005"}
    /\ \A o \in DOMAIN orders :
          /\ \E a \in Agent1 : orders[o].assigned_agent_id = StrOfOid(a)
          /\ orders[o].status \in {"pending", "in_progress", "completed"}

\* C25: with startup_event run by one process, one run after another, the
\* started server holds one agent1 and its five orders after every step; the
\* orders insert_many creates are pending with no started_at and no
\* completed_at; and a run on the started server writes nothing to the store.
C25_SeedOnce ==
    [][ /\ up' => Seeded'
        /\ \A p \in DOMAIN boot :
              /\ startup_event_insert_many(p) =>
                    \A o \in DOMAIN orders' \ DOMAIN orders :
                        /\ orders'[o].status = "pending"
                        /\ "started_at" \notin DOMAIN orders'[o]
                        /\ "completed_at" \notin DOMAIN orders'[o]
              /\ (startup_event(p) /\ up) =>
                    (delivery_agents' = delivery_agents /\ orders' = orders)
      ]_vars

\* C25 witness: a further run of startup_event has finished on the seeded
\* store, its find_one having found agent1, after the orders had moved on: one
\* is completed and one in progress.
C25_Witness ==
    /\ up
    /\ Seeded
    /\ \E p \in DOMAIN boot : boot[p] = Booted(TRUE)
    /\ \E o \in DOMAIN orders : orders[o].status = "completed"
    /\ \E o \in DOMAIN orders : orders[o].status = "in_progress"

====
